---- MODULE Spec2Model ----
(***************************************************************************)
(* A model of the typed configuration loader ConfigModel, in its two       *)
(* variants:                                                               *)
(*   "typesafe_config"  src/src/typesafe_config/typesafe_config.py         *)
(*   "typesave_config"  src/typesave_config.py                             *)
(*                                                                         *)
(* Text is modelled as a sequence of one-character strings, so that        *)
(* joining, splitting, slicing and case folding are computed and not       *)
(* assumed.  Python values are tagged records [t |-> tag, v |-> payload];  *)
(* a dict value is [t |-> "dict", v |-> f] with f a function from keys     *)
(* (texts) to values.  Objects with identity live in a heap: a sequence of *)
(* dict bodies whose cells are scalars or references [t |-> "ref"].        *)
(***************************************************************************)
EXTENDS Integers, Sequences, FiniteSets, TLC

VARIABLES
    module,     \* which of the two source files is the imported ConfigModel
    fs,         \* the file system: file name -> "missing" | "malformed" | dict value
    argv,       \* sys.argv[1:], a sequence of texts
    environ,    \* os.environ: a function from variable names (texts) to texts
    call,       \* the arguments the caller passes to load (all but readonly)
    defaults,   \* the caller's own `data` dict object (NoneValue: not passed)
    frozen,     \* the set of model types whose model_config is {"frozen": True}
    instances,  \* the instances returned by the successful loads so far
    result,     \* what the last load call did
    assigned,   \* the last attempted field assignment on a returned instance
    input,      \* the arguments of the function under test (function harnesses)
    output      \* its result

vars == <<module, fs, argv, environ, call, defaults, frozen, instances,
          result, assigned, input, output>>

----------------------------------------------------------------------------
(* Text *)

UpperChars == <<"A","B","C","D","E","F","G","H","I","J","K","L","M",
                "N","O","P","Q","R","S","T","U","V","W","X","Y","Z">>
LowerChars == <<"a","b","c","d","e","f","g","h","i","j","k","l","m",
                "n","o","p","q","r","s","t","u","v","w","x","y","z">>
Digits == <<"0","1","2","3","4","5","6","7","8","9">>

\* str.lower / str.upper, character by character
lower_char(c) ==
    IF \E i \in DOMAIN UpperChars : UpperChars[i] = c
    THEN LowerChars[CHOOSE i \in DOMAIN UpperChars : UpperChars[i] = c]
    ELSE c

upper_char(c) ==
    IF \E i \in DOMAIN LowerChars : LowerChars[i] = c
    THEN UpperChars[CHOOSE i \in DOMAIN LowerChars : LowerChars[i] = c]
    ELSE c

lower(s) == [i \in 1..Len(s) |-> lower_char(s[i])]

upper(s) == [i \in 1..Len(s) |-> upper_char(s[i])]

\* s[n:]
slice_from(s, n) == SubSeq(s, n + 1, Len(s))

\* s.startswith(p)
startswith(s, p) == Len(s) >= Len(p) /\ SubSeq(s, 1, Len(p)) = p

\* the positions at which sep occurs in s
occurrences(s, sep) ==
    {i \in 1..(Len(s) - Len(sep) + 1) : SubSeq(s, i, i + Len(sep) - 1) = sep}

\* str.split(sep): cut at the leftmost occurrence, then split the rest
RECURSIVE split(_, _)
split(s, sep) ==
    IF occurrences(s, sep) = {} THEN <<s>>
    ELSE LET i == CHOOSE j \in occurrences(s, sep) :
                      \A k \in occurrences(s, sep) : j <= k
         IN <<SubSeq(s, 1, i - 1)>> \o split(slice_from(s, i + Len(sep) - 1), sep)

\* sep.join(parts)
RECURSIVE join(_, _)
join(parts, sep) ==
    IF Len(parts) = 0 THEN <<>>
    ELSE IF Len(parts) = 1 THEN parts[1]
    ELSE parts[1] \o sep \o join(Tail(parts), sep)

\* the path separator, "__"
field_seperator == <<"_", "_">>

----------------------------------------------------------------------------
(* Values *)

NoneValue == [t |-> "None"]
VStr(s) == [t |-> "str", v |-> s]
VInt(n) == [t |-> "int", v |-> n]
VBool(b) == [t |-> "bool", v |-> b]
VDict(f) == [t |-> "dict", v |-> f]
VRef(id) == [t |-> "ref", v |-> id]

\* the body of {}
EmptyBody == [k \in {} |-> NoneValue]
EmptyDict == VDict(EmptyBody)

\* isinstance(x, dict), for a value and for a heap cell
isdict(x) == x.t = "dict"
isref(x) == x.t = "ref"

\* d[key] = value on a dict body
setitem(body, key, value) ==
    [k \in (DOMAIN body) \cup {key} |-> IF k = key THEN value ELSE body[k]]

----------------------------------------------------------------------------
(* KeyPathCodec *)

\* The loop of _add_fullname_as_nested_dict over parts, on the dict body at
\* the current level; the in-place update is returned as the new body.
RECURSIVE add_parts(_, _, _)
add_parts(current_level, parts, value) ==
    IF Len(parts) = 1
    THEN setitem(current_level, parts[1], value)
    ELSE LET part == parts[1]
             next_level ==
                 IF part \notin DOMAIN current_level \/ ~isdict(current_level[part])
                 THEN EmptyBody
                 ELSE current_level[part].v
         IN setitem(current_level, part,
                    VDict(add_parts(next_level, Tail(parts), value)))

\* a codec that stores the value under the flat key, building no nesting
add_fullname_flat(target_dict, full_name, value, sep) ==
    VDict(setitem(target_dict.v, full_name, value))

_add_fullname_as_nested_dict(target_dict, full_name, value, sep) ==
    VDict(add_parts(target_dict.v, split(full_name, sep), value))

\* a full name that forgets the path: the field name alone
f_name_only(_path, f_name) == f_name

\* f_fullname of _get_attr_metadata: the path extended by one field name
f_fullname(_path, f_name) ==
    IF Len(_path) > 0 THEN _path \o field_seperator \o f_name ELSE f_name

\* the full name the walker gives a field reached through the segments P
RECURSIVE fullname_of(_, _)
fullname_of(_path, P) ==
    IF Len(P) = 0 THEN _path
    ELSE fullname_of(f_fullname(_path, P[1]), Tail(P))

----------------------------------------------------------------------------
(* The heap, and MergeEngine *)

\* a new dict object with the given body: the heap grown by one
alloc_body(h, body) == Append(h, body)

\* h[id][key] = value
heap_setitem(h, id, key, value) == [h EXCEPT ![id] = setitem(h[id], key, value)]

\* A dict value built as fresh objects (what a decoder or a literal creates):
\* returns [h |-> the heap, id |-> the new object].
RECURSIVE alloc(_, _)
RECURSIVE alloc_items(_, _, _, _)
alloc_items(h, id, body, keys) ==
    IF keys = {} THEN h
    ELSE LET key == CHOOSE k \in keys : TRUE
             h1 == IF isdict(body[key])
                   THEN LET sub == alloc(h, body[key])
                        IN heap_setitem(sub.h, id, key, VRef(sub.id))
                   ELSE heap_setitem(h, id, key, body[key])
         IN alloc_items(h1, id, body, keys \ {key})

alloc(h, d) ==
    LET h1 == alloc_body(h, EmptyBody)
        id == Len(h1)
    IN [h |-> alloc_items(h1, id, d.v, DOMAIN d.v), id |-> id]

\* the value of the object id, read through the references
RECURSIVE deref(_, _)
deref(h, id) ==
    VDict([k \in DOMAIN h[id] |->
             IF isref(h[id][k]) THEN deref(h, h[id][k].v) ELSE h[id][k]])

\* the objects reachable from id (id included)
RECURSIVE reach(_, _)
reach(h, id) ==
    {id} \cup UNION {reach(h, h[id][k].v) : k \in {j \in DOMAIN h[id] : isref(h[id][j])}}

\* _deep_merge(dict1, dict2) on objects: dict1 is updated in place and
\* returned, so the result is the heap; a value of dict2 is stored as it is
\* (a nested dict of dict2 by reference).
RECURSIVE _deep_merge(_, _, _)
RECURSIVE deep_merge_items(_, _, _, _)

\* a merge that overrides the keys dict1 has and drops the keys it lacks
RECURSIVE deep_merge_known_items(_, _, _, _)
deep_merge_known_items(h, dict1, dict2, keys) ==
    IF keys = {} THEN h
    ELSE LET key == CHOOSE k \in keys : TRUE
             value == h[dict2][key]
             h1 == IF key \in DOMAIN h[dict1] /\ isref(h[dict1][key]) /\ isref(value)
                   THEN _deep_merge(h, h[dict1][key].v, value.v)
                   ELSE IF key \in DOMAIN h[dict1]
                        THEN heap_setitem(h, dict1, key, value)
                        ELSE h
         IN deep_merge_known_items(h1, dict1, dict2, keys \ {key})

deep_merge_known_keys(h, dict1, dict2) ==
    deep_merge_known_items(h, dict1, dict2, DOMAIN h[dict2])

\* dict1.update(dict2): every key of dict2 replaces, nested mappings included
shallow_update(h, dict1, dict2) ==
    [h EXCEPT ![dict1] =
        [k \in DOMAIN h[dict1] \cup DOMAIN h[dict2] |->
            IF k \in DOMAIN h[dict2] THEN h[dict2][k] ELSE h[dict1][k]]]

deep_merge_items(h, dict1, dict2, keys) ==
    IF keys = {} THEN h
    ELSE LET key == CHOOSE k \in keys : TRUE
             value == h[dict2][key]
             h1 == IF key \in DOMAIN h[dict1] /\ isref(h[dict1][key]) /\ isref(value)
                   THEN _deep_merge(h, h[dict1][key].v, value.v)
                   ELSE heap_setitem(h, dict1, key, value)
         IN deep_merge_items(h1, dict1, dict2, keys \ {key})

_deep_merge(h, dict1, dict2) == deep_merge_items(h, dict1, dict2, DOMAIN h[dict2])

\* deepMerge on values: both operands built as fresh objects, merged, read back
merged_value(a, b) ==
    LET ha == alloc(<<>>, a)
        hb == alloc(ha.h, b)
    IN deref(_deep_merge(hb.h, ha.id, hb.id), ha.id)

----------------------------------------------------------------------------
(* The schema, and SchemaWalker *)

\* the characters of the model in code-point order, as sorted() compares them
CodePoints ==
    <<"-", ".">> \o Digits \o <<"=">> \o UpperChars \o <<"_">> \o LowerChars

ord(c) == CHOOSE i \in DOMAIN CodePoints : CodePoints[i] = c

\* s < t on texts
RECURSIVE text_less(_, _)
text_less(s, t) ==
    IF Len(t) = 0 THEN FALSE
    ELSE IF Len(s) = 0 THEN TRUE
    ELSE IF s[1] = t[1] THEN text_less(Tail(s), Tail(t))
    ELSE ord(s[1]) < ord(t[1])

\* annotations: a scalar class, a model class, list[...]
TScalar(name) == [kind |-> "scalar", name |-> name]
TModel(name) == [kind |-> "model", name |-> name]
TList(arg) == [kind |-> "list", arg |-> arg]

VList(items) == [t |-> "list", v |-> items]

\* a declared field; default is NoneValue when the field is required
Field(name, annotation, required, default) ==
    [name |-> name, annotation |-> annotation, required |-> required,
     default |-> default]

\* field names, and the texts used as values
N_port == <<"p", "o", "r", "t">>
N_user == <<"u", "s", "e", "r">>
N_prompts == <<"p", "r", "o", "m", "p", "t", "s">>
N_UserName == <<"U", "s", "e", "r", "N", "a", "m", "e">>
N_PassWord == <<"P", "a", "s", "s", "W", "o", "r", "d">>
N_name == <<"n", "a", "m", "e">>
N_anonym == <<"a", "n", "o", "n", "y", "m">>

\* The schema of the demo programs: AppConfig with a nested AppConfigUser and
\* a list of AppConfigPrompt (model_fields of each class).
Schema ==
    [AppConfig |->
        {Field(N_port, TScalar("int"), TRUE, NoneValue),
         Field(N_user, TModel("AppConfigUser"), TRUE, NoneValue),
         Field(N_prompts, TList(TModel("AppConfigPrompt")), FALSE, VList(<<>>))},
     AppConfigUser |->
        {Field(N_UserName, TScalar("str"), FALSE, VStr(N_anonym)),
         Field(N_PassWord, TScalar("str"), TRUE, NoneValue)},
     AppConfigPrompt |->
        {Field(N_name, TScalar("str"), TRUE, NoneValue)}]

\* sorted(model.model_fields.items()): the fields by name
RECURSIVE sorted_fields(_)
sorted_fields(fields) ==
    IF fields = {} THEN <<>>
    ELSE LET first == CHOOSE f \in fields :
                          \A g \in fields \ {f} : text_less(f.name, g.name)
         IN <<first>> \o sorted_fields(fields \ {first})

\* hasattr(f_type, "model_fields")
has_model_fields(f_type) == f_type.kind = "model"

\* get_origin(f_type) is list and get_args(f_type)
is_list(f_type) == f_type.kind = "list"

\* type_name: __name__ of a class; a list[...] alias answers with list's
type_name(f_type) == IF is_list(f_type) THEN "list" ELSE f_type.name

\* how deep _get_attr_metadata and _set_frozen may recurse before the
\* interpreter raises RecursionError
MaxIndent == 4

RecursionError == [model |-> "RecursionError", name |-> <<>>, fullname |-> <<>>,
                   type |-> "RecursionError", raw_type |-> TScalar("RecursionError"),
                   default |-> NoneValue]

\* _get_attr_metadata(model, _indent, _path) over the classes of S
RECURSIVE _get_attr_metadata(_, _, _, _)
RECURSIVE attr_metadata_of(_, _, _, _, _)
attr_metadata_of(S, model, fields, _indent, _path) ==
    IF Len(fields) = 0 THEN <<>>
    ELSE LET info == Head(fields)
             f_type == info.annotation
             fullname == f_fullname(_path, info.name)
             f == <<[model |-> model, name |-> info.name, fullname |-> fullname,
                     type |-> type_name(f_type), raw_type |-> f_type,
                     default |-> info.default]>>
             nested == IF has_model_fields(f_type)
                       THEN _get_attr_metadata(S, f_type.name, _indent + 1, fullname)
                       ELSE <<>>
             listed == IF /\ is_list(f_type)
                          /\ has_model_fields(f_type.arg)
                          /\ f_type.arg.name # model
                       THEN _get_attr_metadata(S, f_type.arg.name, _indent + 1, fullname)
                       ELSE <<>>
         IN f \o nested \o listed
              \o attr_metadata_of(S, model, Tail(fields), _indent, _path)

_get_attr_metadata(S, model, _indent, _path) ==
    IF _indent > MaxIndent THEN <<RecursionError>>
    ELSE attr_metadata_of(S, model, sorted_fields(S[model]), _indent, _path)

get_metadata(S, cls) == _get_attr_metadata(S, cls, 0, <<>>)

\* issubclass(t, BaseModel) or get_origin(t) in (list, dict)
is_model_or_container(t) == t.kind \in {"model", "list"}

seq_map_fullname(ms) == [i \in 1..Len(ms) |-> ms[i].fullname]

\* _get_possible_cli_argsname (typesafe_config): the full names of the fields
\* that are neither models nor containers
is_possible_cli_arg(m) == ~is_model_or_container(m.raw_type)

_get_possible_cli_argsname(S, cls) ==
    seq_map_fullname(SelectSeq(get_metadata(S, cls), is_possible_cli_arg))

----------------------------------------------------------------------------
(* Coercion of a text by the declared scalar type (typesave_config) *)

is_digit(c) == \E i \in DOMAIN Digits : Digits[i] = c

digit_value(c) == (CHOOSE i \in DOMAIN Digits : Digits[i] = c) - 1

\* digits, single underscores allowed between two digits
valid_digits(s) ==
    /\ Len(s) > 0
    /\ \A i \in 1..Len(s) :
          \/ is_digit(s[i])
          \/ /\ s[i] = "_"
             /\ 1 < i /\ i < Len(s)
             /\ is_digit(s[i - 1]) /\ is_digit(s[i + 1])

RECURSIVE digits_value(_)
digits_value(s) ==
    IF Len(s) = 0 THEN 0
    ELSE LET front == SubSeq(s, 1, Len(s) - 1)
         IN IF s[Len(s)] = "_" THEN digits_value(front)
            ELSE digits_value(front) * 10 + digit_value(s[Len(s)])

count_digits(s) == Cardinality({i \in 1..Len(s) : is_digit(s[i])})

has_sign(s) == Len(s) > 0 /\ s[1] \in {"+", "-"}

unsigned(s) == IF has_sign(s) THEN Tail(s) ELSE s

sign_of(s) == IF Len(s) > 0 /\ s[1] = "-" THEN -1 ELSE 1

\* int(value_str) for texts without white space: ok is FALSE for ValueError
parse_int(value_str) ==
    IF valid_digits(unsigned(value_str))
    THEN [ok |-> TRUE, value |-> VInt(sign_of(value_str) * digits_value(unsigned(value_str)))]
    ELSE [ok |-> FALSE, value |-> NoneValue]

RECURSIVE pow10(_)
pow10(n) == IF n <= 0 THEN 1 ELSE 10 * pow10(n - 1)

\* m * 10^e with the trailing zeros of m moved into e
RECURSIVE normal_decimal(_, _)
normal_decimal(m, e) ==
    IF m = 0 THEN [kind |-> "finite", m |-> 0, e |-> 0]
    ELSE IF m % 10 = 0 THEN normal_decimal(m \div 10, e + 1)
    ELSE [kind |-> "finite", m |-> m, e |-> e]

VFloat(d) == [t |-> "float", v |-> d]

\* float(value_str) for texts without white space: a decimal literal with an
\* optional fraction and exponent, or inf / infinity / nan; the number is kept
\* as an exact decimal
parse_float(value_str) ==
    LET body == lower(unsigned(value_str))
        sign == sign_of(value_str)
        es == occurrences(body, <<"e">>)
        epos == CHOOSE i \in es : \A j \in es : i <= j
        mant == IF es = {} THEN body ELSE SubSeq(body, 1, epos - 1)
        exp == IF es = {} THEN <<"0">> ELSE slice_from(body, epos)
        dots == occurrences(mant, <<".">>)
        dpos == CHOOSE i \in dots : TRUE
        ip == IF dots = {} THEN mant ELSE SubSeq(mant, 1, dpos - 1)
        fp == IF dots = {} THEN <<>> ELSE slice_from(mant, dpos)
        failed == [ok |-> FALSE, value |-> NoneValue]
    IN IF body \in {<<"i", "n", "f">>, <<"i", "n", "f", "i", "n", "i", "t", "y">>}
       THEN [ok |-> TRUE, value |-> VFloat([kind |-> "inf", m |-> sign, e |-> 0])]
       ELSE IF body = <<"n", "a", "n">>
       THEN [ok |-> TRUE, value |-> VFloat([kind |-> "nan", m |-> 0, e |-> 0])]
       ELSE IF \/ Cardinality(dots) > 1
               \/ Len(ip) + Len(fp) = 0
               \/ (Len(ip) > 0 /\ ~valid_digits(ip))
               \/ (Len(fp) > 0 /\ ~valid_digits(fp))
               \/ ~parse_int(exp).ok
       THEN failed
       ELSE [ok |-> TRUE,
             value |-> VFloat(normal_decimal(
                 sign * (digits_value(ip) * pow10(count_digits(fp)) + digits_value(fp)),
                 parse_int(exp).value.v - count_digits(fp)))]

T_true == <<"t", "r", "u", "e">>
T_yes == <<"y", "e", "s">>

\* every kind taken as str: the text kept as it is
coerce_verbatim(type, value_str) == [ok |-> TRUE, value |-> VStr(value_str)]

\* the manual conversion of _load_cli by metadata_obj.type
coerce(type, value_str) ==
    IF type = "int" THEN parse_int(value_str)
    ELSE IF type = "float" THEN parse_float(value_str)
    ELSE IF type = "bool"
    THEN [ok |-> TRUE, value |-> VBool(lower(value_str) \in {T_true, <<"1">>, T_yes})]
    ELSE [ok |-> TRUE, value |-> VStr(value_str)]

----------------------------------------------------------------------------
(* SourceLoaders: command line *)

DashDash == <<"-", "-">>

\* the line break character
NewLine == "\n"

\* re.match(r"^(--[^=]+)=(.+)$", arg): the key is the text before the first
\* "="; "." matches no line break and "$" matches at the end and before a line
\* break that ends the text, so the value leaves out one final line break
match_equal(arg) ==
    LET eqs == occurrences(arg, <<"=">>)
        i == CHOOSE j \in eqs : \A k \in eqs : j <= k
        rest == slice_from(arg, i)
        value == IF Len(rest) > 0 /\ rest[Len(rest)] = NewLine
                 THEN SubSeq(rest, 1, Len(rest) - 1) ELSE rest
    IN IF /\ startswith(arg, DashDash) /\ eqs # {} /\ i >= 4
          /\ Len(value) > 0 /\ occurrences(value, <<NewLine>>) = {}
       THEN [matched |-> TRUE, key |-> SubSeq(arg, 1, i - 1), value |-> value]
       ELSE [matched |-> FALSE, key |-> <<>>, value |-> <<>>]

\* next((key for key in names if key.lower() == key_fullname.lower()), None)
first_match(names, key_fullname) ==
    LET hits == {i \in DOMAIN names : lower(names[i]) = lower(key_fullname)}
    IN IF hits = {} THEN [found |-> FALSE, name |-> <<>>]
       ELSE [found |-> TRUE, name |-> names[CHOOSE i \in hits : \A j \in hits : i <= j]]

NoCli == [cli_config |-> EmptyDict, loaded_args |-> <<>>, unknown_args |-> <<>>,
          skipped |-> <<>>]

\* the for loop of _load_cli (typesafe_config) over args_to_parse
RECURSIVE load_cli_args(_, _, _, _)
load_cli_args(names, cli_prefix, args, st) ==
    IF Len(args) = 0 THEN st
    ELSE LET arg == Head(args)
             m == match_equal(arg)
             key_fullname == slice_from(m.key, Len(cli_prefix))
             field_name == first_match(names, key_fullname)
             st1 == IF m.matched /\ field_name.found
                    THEN [st EXCEPT
                            !.cli_config = _add_fullname_as_nested_dict(
                                @, field_name.name, VStr(m.value), field_seperator),
                            !.loaded_args = Append(@, m.key)]
                    ELSE [st EXCEPT !.unknown_args = Append(@, arg)]
         IN load_cli_args(names, cli_prefix, Tail(args), st1)

\* _load_cli of typesafe_config: only "--key=value", values kept as texts
_load_cli(S, cls, prefix, args) ==
    load_cli_args(_get_possible_cli_argsname(S, cls), DashDash \o lower(prefix),
                  args, NoCli)

BaseTypes == {"str", "int", "float", "bool"}

\* registered_cli_flags_map[key_name]: the last registered field with that flag
registered_flag(ms, prefix_lower, key_name) ==
    LET hits == {i \in DOMAIN ms :
                    /\ ms[i].type \in BaseTypes
                    /\ DashDash \o prefix_lower \o ms[i].fullname = key_name}
    IN IF hits = {} THEN [found |-> FALSE, metadata_obj |-> RecursionError]
       ELSE [found |-> TRUE,
             metadata_obj |-> ms[CHOOSE i \in hits : \A j \in hits : j <= i]]

\* what both shapes do with a registered flag and its value text
typesave_store(st, prefix_lower, key_name, metadata_obj, value_str) ==
    LET c == coerce(metadata_obj.type, value_str)
        original_full_name == slice_from(key_name, Len(prefix_lower) + 2)
    IN IF c.ok
       THEN [st EXCEPT
               !.cli_config = _add_fullname_as_nested_dict(
                   @, original_full_name, c.value, field_seperator),
               !.loaded_args = Append(@, key_name)]
       ELSE [st EXCEPT !.skipped = Append(@, key_name)]

\* the while loop of _load_cli (typesave_config) from position i
RECURSIVE typesave_cli_args(_, _, _, _, _)
typesave_cli_args(ms, prefix_lower, args, i, st) ==
    IF i > Len(args) THEN st
    ELSE LET arg == args[i]
             m == match_equal(arg)
             byeq == registered_flag(ms, prefix_lower, m.key)
             bare == registered_flag(ms, prefix_lower, arg)
             has_value == i + 1 <= Len(args) /\ ~startswith(args[i + 1], DashDash)
         IN IF m.matched
            THEN typesave_cli_args(ms, prefix_lower, args, i + 1,
                    IF byeq.found
                    THEN typesave_store(st, prefix_lower, m.key, byeq.metadata_obj, m.value)
                    ELSE [st EXCEPT !.unknown_args = Append(@, arg)])
            ELSE IF startswith(arg, DashDash) /\ bare.found /\ has_value
            THEN typesave_cli_args(ms, prefix_lower, args,
                    IF coerce(bare.metadata_obj.type, args[i + 1]).ok
                    THEN i + 2 ELSE i + 1,
                    typesave_store(st, prefix_lower, arg, bare.metadata_obj, args[i + 1]))
            ELSE IF startswith(arg, DashDash) /\ bare.found
            THEN typesave_cli_args(ms, prefix_lower, args, i + 1,
                    [st EXCEPT !.skipped = Append(@, arg)])
            ELSE typesave_cli_args(ms, prefix_lower, args, i + 1,
                    [st EXCEPT !.unknown_args = Append(@, arg)])

\* _load_cli of typesave_config: "--key=value" and "--key value", coerced
typesave_load_cli(S, cls, prefix, args) ==
    typesave_cli_args(get_metadata(S, cls), lower(prefix), args, 1, NoCli)

\* the _load_cli of the imported module
load_cli_of(mod, S, cls, prefix, args) ==
    IF mod = "typesafe_config" THEN _load_cli(S, cls, prefix, args)
    ELSE typesave_load_cli(S, cls, prefix, args)

----------------------------------------------------------------------------
(* SourceLoaders: environment *)

\* the for loop of _load_env (typesafe_config) over cli_possible_argnames
RECURSIVE load_env_names(_, _, _, _)
load_env_names(names, prefix_upper, env, env_config) ==
    IF Len(names) = 0 THEN env_config
    ELSE LET fn == Head(names)
             env_name == prefix_upper \o upper(fn)
         IN load_env_names(Tail(names), prefix_upper, env,
                IF env_name \in DOMAIN env
                THEN _add_fullname_as_nested_dict(
                         env_config, fn, VStr(env[env_name]), field_seperator)
                ELSE env_config)

_load_env(S, cls, prefix, env) ==
    load_env_names(_get_possible_cli_argsname(S, cls), upper(prefix), env, EmptyDict)

\* the for loop of _load_env (typesave_config) over get_metadata()
RECURSIVE typesave_env_fields(_, _, _, _)
typesave_env_fields(ms, prefix_upper, env, env_config) ==
    IF Len(ms) = 0 THEN env_config
    ELSE LET m == Head(ms)
             env_name == prefix_upper \o upper(m.fullname)
         IN typesave_env_fields(Tail(ms), prefix_upper, env,
                IF env_name \in DOMAIN env /\ m.type \in BaseTypes
                THEN _add_fullname_as_nested_dict(
                         env_config, m.fullname, VStr(env[env_name]), field_seperator)
                ELSE env_config)

typesave_load_env(S, cls, prefix, env) ==
    typesave_env_fields(get_metadata(S, cls), upper(prefix), env, EmptyDict)

load_env_of(mod, S, cls, prefix, env) ==
    IF mod = "typesafe_config" THEN _load_env(S, cls, prefix, env)
    ELSE typesave_load_env(S, cls, prefix, env)

----------------------------------------------------------------------------
(* SourceLoaders: files *)

\* what Path(name) holds: no file, a file the decoder rejects, a document
Missing == [t |-> "missing"]
Malformed == [t |-> "malformed"]
Doc(d) == [t |-> "doc", v |-> d]

NotRaised == "none"

\* toml_config = {} / json_config = {} / "else {}": a new empty dict
empty_config(h) ==
    [h |-> alloc_body(h, EmptyBody), config |-> VRef(Len(h) + 1), raised |-> NotRaised]

\* the for loop of _load_toml and _load_json: the decoded file REPLACES the
\* config read so far; caught says whether the except clause catches the
\* decoder's error (a subclass of ValueError)
RECURSIVE load_files(_, _, _, _, _)
load_files(fsys, filenames, caught, decode_error, st) ==
    IF Len(filenames) = 0 \/ st.raised # NotRaised THEN st
    ELSE LET file == fsys[Head(filenames)]
             a == alloc(st.h, file.v)
             st1 == IF file.t = "missing" THEN st
                    ELSE IF file.t = "malformed"
                    THEN IF caught THEN st ELSE [st EXCEPT !.raised = decode_error]
                    ELSE IF isdict(file.v)
                    THEN [st EXCEPT !.h = a.h, !.config = VRef(a.id)]
                    ELSE [st EXCEPT !.config = file.v]
         IN load_files(fsys, Tail(filenames), caught, decode_error, st1)

\* typesafe_config: except ValidationError; typesave_config: except Exception
_load_toml(mod, h, fsys, filenames) ==
    load_files(fsys, filenames, mod = "typesave_config", "TOMLDecodeError",
               empty_config(h))

\* typesafe_config: except OSError; typesave_config: except Exception
_load_json(mod, h, fsys, filenames) ==
    load_files(fsys, filenames, mod = "typesave_config", "JSONDecodeError",
               empty_config(h))

----------------------------------------------------------------------------
(* SchemaValidator: the constructor call pydantic_model(merged_config as keywords) *)

ErrorDetails(loc, type) == [loc |-> loc, type |-> type]

\* the errors of a scalar value against a scalar annotation (lax mode)
validate_scalar(name, value, loc) ==
    IF name = "int"
    THEN IF value.t \in {"int", "bool"} THEN <<>>
         ELSE IF value.t = "str"
         THEN IF parse_int(value.v).ok THEN <<>>
              ELSE <<ErrorDetails(loc, "int_parsing")>>
         ELSE <<ErrorDetails(loc, "int_type")>>
    ELSE IF name = "float"
    THEN IF value.t \in {"int", "bool", "float"} THEN <<>>
         ELSE IF value.t = "str"
         THEN IF parse_float(value.v).ok THEN <<>>
              ELSE <<ErrorDetails(loc, "float_parsing")>>
         ELSE <<ErrorDetails(loc, "float_type")>>
    ELSE IF name = "bool"
    THEN IF value.t = "bool" THEN <<>>
         ELSE IF value.t = "str" THEN <<ErrorDetails(loc, "bool_parsing")>>
         ELSE <<ErrorDetails(loc, "bool_type")>>
    ELSE IF value.t = "str" THEN <<>>
    ELSE <<ErrorDetails(loc, "string_type")>>

\* one entry per rejected field, each with the location from the root; the
\* fields are visited by name
RECURSIVE validate_value(_, _, _, _)
RECURSIVE validate_fields(_, _, _, _)
RECURSIVE validate_items(_, _, _, _, _)
validate_fields(S, fields, value, loc) ==
    IF Len(fields) = 0 THEN <<>>
    ELSE LET info == Head(fields)
             here == IF info.name \in DOMAIN value.v
                     THEN validate_value(S, info.annotation, value.v[info.name],
                                         Append(loc, info.name))
                     ELSE IF info.required
                     THEN <<ErrorDetails(Append(loc, info.name), "missing")>>
                     ELSE <<>>
         IN here \o validate_fields(S, Tail(fields), value, loc)

validate_items(S, annotation, items, loc, i) ==
    IF i > Len(items) THEN <<>>
    ELSE validate_value(S, annotation, items[i], Append(loc, <<Digits[i]>>))
             \o validate_items(S, annotation, items, loc, i + 1)

validate_value(S, annotation, value, loc) ==
    IF annotation.kind = "model"
    THEN IF isdict(value)
         THEN validate_fields(S, sorted_fields(S[annotation.name]), value, loc)
         ELSE <<ErrorDetails(loc, "model_type")>>
    ELSE IF annotation.kind = "list"
    THEN IF value.t = "list"
         THEN validate_items(S, annotation.arg, value.v, loc, 1)
         ELSE <<ErrorDetails(loc, "list_type")>>
    ELSE validate_scalar(annotation.name, value, loc)

\* e.errors() of the constructor call pydantic_model(merged_config as keywords); <<>> when it is valid
validate(S, cls, merged_config) == validate_value(S, TModel(cls), merged_config, <<>>)

\* the entries load logs: f"field '{ve["loc"][0]}' {ve['type'].capitalize()}"
err_str(errors) ==
    [i \in 1..Len(errors) |-> [field |-> errors[i].loc[1], type |-> errors[i].type]]

----------------------------------------------------------------------------
(* ImmutabilityEnforcer *)

\* _set_frozen(model): model_config = {"frozen": True} on every nested model
\* and list element model, then on model itself; fz is the set of classes
\* whose model_config is frozen.  Returns [raised, frozen].
RECURSIVE _set_frozen(_, _, _, _)
RECURSIVE set_frozen_fields(_, _, _, _, _)
set_frozen_fields(S, model, fields, depth, st) ==
    IF Len(fields) = 0 \/ st.raised # NotRaised THEN st
    ELSE LET f_type == Head(fields).annotation
             st1 == IF has_model_fields(f_type)
                    THEN _set_frozen(S, f_type.name, depth + 1, st.frozen)
                    ELSE st
             st2 == IF /\ st1.raised = NotRaised
                       /\ is_list(f_type)
                       /\ has_model_fields(f_type.arg)
                       /\ f_type.arg.name # model
                    THEN _set_frozen(S, f_type.arg.name, depth + 1, st1.frozen)
                    ELSE st1
         IN set_frozen_fields(S, model, Tail(fields), depth, st2)

\* a _set_frozen that leaves the class it is called on as it was
set_frozen_nested_only(S, model, depth, fz) ==
    IF depth > MaxIndent THEN [raised |-> "RecursionError", frozen |-> fz]
    ELSE set_frozen_fields(S, model, sorted_fields(S[model]), depth,
                           [raised |-> NotRaised, frozen |-> fz])

_set_frozen(S, model, depth, fz) ==
    IF depth > MaxIndent THEN [raised |-> "RecursionError", frozen |-> fz]
    ELSE LET st == set_frozen_fields(S, model, sorted_fields(S[model]), depth,
                                     [raised |-> NotRaised, frozen |-> fz])
         IN IF st.raised # NotRaised THEN st
            ELSE [st EXCEPT !.frozen = @ \cup {model}]

----------------------------------------------------------------------------
(* LoadOrchestrator *)

\* an argument of load: passed by the caller, or left at its default
Given(v) == [given |-> TRUE, v |-> v]
Omitted == [given |-> FALSE, v |-> <<>>]

\* toml_files=None (typesafe_config), toml_files=["conf.toml"] (typesave_config)
default_toml_files(mod) ==
    IF mod = "typesave_config" THEN <<"conf.toml">> ELSE <<>>

\* data=None (typesafe_config), data={} (typesave_config)
default_data(mod) == IF mod = "typesave_config" THEN EmptyDict ELSE NoneValue

\* the merges applied in the opposite order, the environment first
RECURSIVE merge_all_backwards(_, _, _)
merge_all_backwards(h, merged_config, configs) ==
    IF Len(configs) = 0 THEN [h |-> h, raised |-> NotRaised]
    ELSE IF ~isref(configs[Len(configs)]) THEN [h |-> h, raised |-> "AttributeError"]
    ELSE merge_all_backwards(
             _deep_merge(h, merged_config, configs[Len(configs)].v),
             merged_config, SubSeq(configs, 1, Len(configs) - 1))

\* the five merged_config = cls._deep_merge(merged_config, ...) statements;
\* a config that is no dict has no .items(): AttributeError
RECURSIVE merge_all(_, _, _)
merge_all(h, merged_config, configs) ==
    IF Len(configs) = 0 THEN [h |-> h, raised |-> NotRaised]
    ELSE IF ~isref(Head(configs)) THEN [h |-> h, raised |-> "AttributeError"]
    ELSE merge_all(_deep_merge(h, merged_config, Head(configs).v),
                   merged_config, Tail(configs))

\* the value a loader's result has: an object read through, or a scalar
value_of(h, config) == IF isref(config) THEN deref(h, config.v) ELSE config

NoFragments ==
    [data |-> NoneValue, toml |-> NoneValue, json |-> NoneValue,
     cli |-> NoneValue, env |-> NoneValue]

\* what one call of load did: how it ended ("instance", "None" or the name of
\* the exception that left it), the fragments as their loaders returned them
\* and as they are when load ends, the caller's data object when load ends,
\* the merged mapping and whether the validator received it, the validator's
\* errors and the entries logged for them, the frozen classes, and the steps
\* load took, in order
Outcome(outcome, readonly, fragments, after, data_after, merged, validated, errors, fz, steps) ==
    [t |-> "load", outcome |-> outcome, readonly |-> readonly, steps |-> steps,
     fragments |-> fragments, after |-> after, data_after |-> data_after,
     merged |-> merged, validated |-> validated,
     errors |-> errors, err_str |-> err_str(errors), frozen |-> fz]

\* The state of one load call as it runs: the heap, the exception raised
\* (NotRaised while none is), the loaders' results in merge order (data,
\* toml, json, cli, env), their values when they were produced, and the
\* merged_config object (0 before it is created), and the steps taken so far.
Loading(h, raised, configs, fragments, merged_config, steps) ==
    [h |-> h, raised |-> raised, configs |-> configs, fragments |-> fragments,
     merged_config |-> merged_config, steps |-> steps]

\* the steps of load that produce the fragments, in merge order; data is an
\* argument and takes no step
SourceSteps == <<"data", "toml", "json", "cli", "env">>

\* the _deep_merge calls load makes: all of them, or up to the one that raises
merge_steps(configs) ==
    LET bad == {i \in DOMAIN configs : ~isref(configs[i])}
        n == IF bad = {} THEN Len(configs) ELSE CHOOSE i \in bad : \A j \in bad : i <= j
    IN [i \in 1..n |-> "merge"]

\* the data argument: the caller's dict object, or the default
load_data(passed) ==
    IF isdict(passed)
    THEN Loading(alloc(<<>>, passed).h, NotRaised, <<VRef(1)>>, <<passed>>, 0, <<>>)
    ELSE Loading(<<>>, NotRaised, <<passed>>, <<passed>>, 0, <<>>)

\* x_config = cls._load_x(...): r is what the file loader returned or raised
load_config(st, r) ==
    IF st.raised # NotRaised THEN st
    ELSE Loading(r.h, r.raised, Append(st.configs, r.config),
                 Append(st.fragments, value_of(r.h, r.config)), 0,
                 Append(st.steps, SourceSteps[Len(st.configs) + 1]))

\* x_config = a dict the CLI or the environment loader built
load_dict(st, d) ==
    IF st.raised # NotRaised THEN st
    ELSE Loading(alloc(st.h, d).h, NotRaised, Append(st.configs, VRef(Len(st.h) + 1)),
                 Append(st.fragments, d), 0,
                 Append(st.steps, SourceSteps[Len(st.configs) + 1]))

\* merged_config = {} and the five merges
load_merged(st) ==
    IF st.raised # NotRaised THEN st
    ELSE LET m == merge_all(alloc_body(st.h, EmptyBody), Len(st.h) + 1, st.configs)
         IN Loading(m.h, m.raised, st.configs, st.fragments, Len(st.h) + 1,
                    st.steps \o merge_steps(st.configs))

by_source(values) ==
    [data |-> values[1], toml |-> values[2], json |-> values[3],
     cli |-> values[4], env |-> values[5]]

values_now(st) == [i \in DOMAIN st.configs |-> value_of(st.h, st.configs[i])]

\* the validation, the freeze and the return of load, or the exception
load_result(st, S, cls, data, readonly, fz) ==
    IF st.merged_config = 0
    THEN Outcome(st.raised, readonly, NoFragments, NoFragments, data, NoneValue,
                 FALSE, <<>>, fz, st.steps)
    ELSE IF st.raised # NotRaised
    THEN Outcome(st.raised, readonly, by_source(st.fragments), by_source(values_now(st)),
                 IF isdict(data) THEN values_now(st)[1] ELSE data, NoneValue, FALSE,
                 <<>>, fz, st.steps)
    ELSE LET errors == validate(S, cls, deref(st.h, st.merged_config))
             fr == IF readonly THEN _set_frozen(S, cls, 0, fz)
                   ELSE [raised |-> NotRaised, frozen |-> fz]
         IN Outcome(IF Len(errors) > 0 THEN "None"
                    ELSE IF fr.raised # NotRaised THEN fr.raised
                    ELSE "instance",
                    readonly, by_source(st.fragments), by_source(values_now(st)),
                    IF isdict(data) THEN values_now(st)[1] ELSE data,
                    deref(st.h, st.merged_config), TRUE, errors,
                    IF Len(errors) > 0 THEN fz ELSE fr.frozen,
                    st.steps \o <<"validate">>
                        \o (IF readonly /\ Len(errors) = 0 THEN <<"freeze">> ELSE <<>>))

\* the loaders of load, in the order it calls them
load_toml_files(st, mod, fsys, toml_files) ==
    load_config(st, IF Len(toml_files) > 0 THEN _load_toml(mod, st.h, fsys, toml_files)
                    ELSE empty_config(st.h))

load_json_files(st, mod, fsys, json_files) ==
    load_config(st, IF Len(json_files) > 0 THEN _load_json(mod, st.h, fsys, json_files)
                    ELSE empty_config(st.h))

\* the command line read whatever load_cli says
load_cli_args_always(st, mod, S, cls, c, args) ==
    load_dict(st, load_cli_of(mod, S, cls, c.prefix, args).cli_config)

load_cli_args_of(st, mod, S, cls, c, args) ==
    load_dict(st, IF c.load_cli THEN load_cli_of(mod, S, cls, c.prefix, args).cli_config
                  ELSE EmptyDict)

load_env_vars_of(st, mod, S, cls, c, env) ==
    load_dict(st, IF c.load_env THEN load_env_of(mod, S, cls, c.prefix, env)
                  ELSE EmptyDict)

\* cls.load(toml_files, json_files, load_env, load_cli, data, readonly, prefix)
\* with the arguments c, the caller's data object, the files fsys, the command
\* line args, the environment env and the frozen classes fz
load(mod, S, cls, fsys, args, env, c, data, readonly, fz) ==
    load_result(
        load_merged(
            load_env_vars_of(
                load_cli_args_of(
                    load_json_files(
                        load_toml_files(
                            load_data(IF isdict(data) THEN data ELSE default_data(mod)),
                            mod, fsys,
                            IF c.toml_files.given THEN c.toml_files.v
                            ELSE default_toml_files(mod)),
                        mod, fsys,
                        IF c.json_files.given THEN c.json_files.v ELSE <<>>),
                    mod, S, cls, c, args),
                mod, S, cls, c, env)),
        S, cls, data, readonly, fz)

\* instance.<field> = value on an instance of cls: BaseModel.__setattr__ looks
\* at cls.model_config["frozen"].  pydantic from 2.10 on keeps the handler of
\* a field once an assignment to it got through and does not look again;
\* earlier versions look on every assignment.
setattr_outcomes(cls, fz, handler_kept) ==
    IF cls \notin fz THEN {"ok"}
    ELSE IF handler_kept THEN {"frozen_instance", "ok"}
    ELSE {"frozen_instance"}

----------------------------------------------------------------------------
(* Harness values shared by the specifications *)

\* the value of a variable a specification does not use
Idle == [t |-> "idle"]

LoaderIdle ==
    /\ module = "typesafe_config"
    /\ fs = Idle
    /\ argv = <<>>
    /\ environ = Idle
    /\ call = Idle
    /\ defaults = NoneValue
    /\ frozen = {}
    /\ instances = <<>>
    /\ result = Idle
    /\ assigned = Idle

loader_vars == <<module, fs, argv, environ, call, defaults, frozen, instances,
                 result, assigned>>

\* the texts of length 1..n over the characters in alphabet
TextsUpTo(alphabet, n) == UNION {[1..k -> alphabet] : k \in 1..n}

----------------------------------------------------------------------------
(* SpecCodec: the key-path codec applied to bounded paths *)

MaxSegments == 3
MaxSegmentLen == 3
CodecAlphabet == {"a", "_"}
CodecValues == {VInt(1), VStr(<<"a">>), VDict(<<"a">> :> VInt(1))}

CodecPaths ==
    UNION {[1..n -> TextsUpTo(CodecAlphabet, MaxSegmentLen)] : n \in 1..MaxSegments}

InitCodec ==
    /\ LoaderIdle
    /\ input \in {[parts |-> P, value |-> v] : P \in CodecPaths, v \in CodecValues}
    /\ output = Idle

\* unflatten(flatten(P), v, {})
Unflatten ==
    /\ output = Idle
    /\ output' = _add_fullname_as_nested_dict(
                     EmptyDict, fullname_of(<<>>, input.parts), input.value,
                     field_seperator)
    /\ UNCHANGED <<loader_vars, input>>

NextCodec == Unflatten

SpecCodec == InitCodec /\ [][NextCodec]_vars

\* {P[1]: {P[2]: ... {P[n]: v}}}
RECURSIVE nested(_, _)
nested(P, v) ==
    IF Len(P) = 1 THEN VDict(P[1] :> v)
    ELSE VDict(P[1] :> nested(Tail(P), v))

contains_sep(s) == occurrences(s, field_seperator) # {}

ends_with_underscore(s) == Len(s) > 0 /\ s[Len(s)] = "_"

NoSegmentHasSep(P) == \A i \in 1..Len(P) : ~contains_sep(P[i])

\* C6 as stated: for every non-empty path P none of whose segments contains
\* "__", and every value v, unflatten(flatten(P), v, {}) is exactly
\* {P[1]: {P[2]: ... {P[n]: v}}}.
C6_RoundTrip_AsStated ==
    (output # Idle /\ NoSegmentHasSep(input.parts))
        => output = nested(input.parts, input.value)

\* C6 amended: the round trip holds for every non-empty path P in which no
\* segment contains "__" and no segment other than the last ends with "_".
C6_RoundTrip ==
    (/\ output # Idle
     /\ NoSegmentHasSep(input.parts)
     /\ \A i \in 1..(Len(input.parts) - 1) : ~ends_with_underscore(input.parts[i]))
        => output = nested(input.parts, input.value)

\* a three-segment path with underscores inside and at the start of segments
\* has been decoded to its nested shape
C6_Witness ==
    /\ output # Idle
    /\ input.parts = <<<<"a", "_", "a">>, <<"_", "a">>, <<"a", "_">>>>
    /\ output = nested(input.parts, input.value)

----------------------------------------------------------------------------
(* SpecMerge: deepMerge applied to bounded nested mappings *)

MaxMergeDepth == 2
MergeKeys == {<<"k">>, <<"m">>}

\* the nested mappings of depth at most d over keys, with one scalar
RECURSIVE DictsOfDepth(_, _, _)
DictsOfDepth(keys, scalar, d) ==
    IF d = 0 THEN {}
    ELSE LET vals == {scalar} \cup DictsOfDepth(keys, scalar, d - 1)
         IN {VDict(f) : f \in UNION {[D -> vals] : D \in SUBSET keys}}

\* the operands carry different non-mapping values (a and b sequences, c a
\* number), so a result tells whose value it holds
InitMerge ==
    /\ LoaderIdle
    /\ input \in [a : DictsOfDepth(MergeKeys, VList(<<VInt(1)>>), MaxMergeDepth),
                  b : DictsOfDepth(MergeKeys, VList(<<VInt(2)>>), MaxMergeDepth),
                  c : DictsOfDepth(MergeKeys, VInt(3), MaxMergeDepth)]
    /\ output = Idle

\* deepMerge(deepMerge(a, b), c) and deepMerge(a, deepMerge(b, c)), each on
\* operands of its own; and what deepMerge(a, b) leaves shared
Merge ==
    /\ output = Idle
    /\ LET a1 == alloc(<<>>, input.a)
           b1 == alloc(a1.h, input.b)
           c1 == alloc(b1.h, input.c)
           ab == _deep_merge(c1.h, a1.id, b1.id)
           ab_c == _deep_merge(ab, a1.id, c1.id)
           bc == _deep_merge(c1.h, b1.id, c1.id)
           a_bc == _deep_merge(bc, a1.id, b1.id)
       IN output' = [ab |-> deref(ab, a1.id),
                     left |-> deref(ab_c, a1.id),
                     right |-> deref(a_bc, a1.id),
                     b_after |-> deref(ab_c, b1.id),
                     shared |-> reach(ab, a1.id) \cap reach(ab, b1.id)]
    /\ UNCHANGED <<loader_vars, input>>

NextMerge == Merge

SpecMerge == InitMerge /\ [][NextMerge]_vars

\* The paths (from the root) at which a holds a mapping, b a non-mapping and c
\* a mapping, all three holding mappings along the way.
RECURSIVE has_dict_scalar_dict(_, _, _)
has_dict_scalar_dict(a, b, c) ==
    \E k \in (DOMAIN a.v) \cap (DOMAIN b.v) \cap (DOMAIN c.v) :
        /\ isdict(a.v[k]) /\ isdict(c.v[k])
        /\ \/ ~isdict(b.v[k])
           \/ has_dict_scalar_dict(a.v[k], b.v[k], c.v[k])

\* C7 as stated: deepMerge(deepMerge(a, b), c) = deepMerge(a, deepMerge(b, c))
\* for all nested mappings a, b, c, mapping against non-mapping included.
C7_Associative_AsStated ==
    output # Idle => output.left = output.right

\* C7 amended: the two groupings agree for all nested mappings a, b, c except
\* where, at some nesting position, the same key holds a mapping in a, a
\* non-mapping in b and a mapping in c.
C7_Associative ==
    (output # Idle /\ ~has_dict_scalar_dict(input.a, input.b, input.c))
        => output.left = output.right

\* three operands with a common nested key, and one key that holds a mapping
\* in a and a scalar in c, have been merged both ways
C7_Witness ==
    /\ output # Idle
    /\ input.a = VDict(<<"k">> :> VDict(<<"k">> :> VList(<<VInt(1)>>))
                        @@ <<"m">> :> VDict(<<"m">> :> VList(<<VInt(1)>>)))
    /\ input.b = VDict(<<"k">> :> VDict(<<"m">> :> VList(<<VInt(2)>>)))
    /\ input.c = VDict(<<"k">> :> VDict(<<"k">> :> VInt(3)) @@ <<"m">> :> VInt(3))
    /\ output.left = VDict(<<"k">> :> VDict(<<"k">> :> VInt(3) @@ <<"m">> :> VList(<<VInt(2)>>))
                           @@ <<"m">> :> VInt(3))
    /\ output.right = output.left

\* the rule of deepMerge: a key of fragment holds the merge of the two values
\* when both are mappings and the value of fragment otherwise; a key of
\* accumulator alone keeps its value
RECURSIVE deepMerge(_, _)
deepMerge(accumulator, fragment) ==
    VDict([k \in DOMAIN accumulator.v \cup DOMAIN fragment.v |->
             IF k \notin DOMAIN fragment.v THEN accumulator.v[k]
             ELSE IF /\ k \in DOMAIN accumulator.v
                     /\ isdict(accumulator.v[k]) /\ isdict(fragment.v[k])
                  THEN deepMerge(accumulator.v[k], fragment.v[k])
                  ELSE fragment.v[k]])

\* C14: _deep_merge(accumulator, fragment) returns, for each key of fragment,
\* the deep merge of the two values when both are mappings and the value of
\* fragment outright otherwise (scalar over mapping, mapping over scalar,
\* sequence over sequence without concatenation), and every key of
\* accumulator that fragment lacks keeps its value, at every nesting level.
C14_MergeRule ==
    output # Idle => output.ab = deepMerge(input.a, input.b)

\* one merge with a sequence over a sequence (k.k), a key only accumulator
\* has (k.m), two mappings merged (k) and a mapping over a sequence (m)
C14_Witness ==
    /\ output # Idle
    /\ input.a = VDict(<<"k">> :> VDict(<<"k">> :> VList(<<VInt(1)>>)
                                         @@ <<"m">> :> VList(<<VInt(1)>>))
                        @@ <<"m">> :> VList(<<VInt(1)>>))
    /\ input.b = VDict(<<"k">> :> VDict(<<"k">> :> VList(<<VInt(2)>>))
                        @@ <<"m">> :> EmptyDict)
    /\ input.c = EmptyDict
    /\ output.ab = VDict(<<"k">> :> VDict(<<"k">> :> VList(<<VInt(2)>>)
                                           @@ <<"m">> :> VList(<<VInt(1)>>))
                          @@ <<"m">> :> EmptyDict)

----------------------------------------------------------------------------
(* SpecCli: the command-line loaders of both modules applied to bounded argv *)

MaxArgs == 2

T_tsc == <<"t", "s", "c", "_">>
T_xyz == <<"x", "y", "z", "_">>
T_nope == <<"n", "o", "p", "e">>
Eq(v) == <<"=">> \o v

CliPrefixes == {upper(T_tsc), <<"A", "P", "P", "_">>}

CliTokens ==
    { DashDash \o T_tsc \o N_port \o Eq(<<"9">>),
      DashDash \o upper(T_tsc) \o upper(N_port) \o Eq(<<"9">>),
      DashDash \o T_xyz \o N_port \o Eq(<<"9">>),
      DashDash \o T_tsc \o fullname_of(<<>>, <<N_user, N_PassWord>>) \o Eq(<<"s">>),
      DashDash \o T_tsc \o lower(fullname_of(<<>>, <<N_user, N_PassWord>>)) \o Eq(<<"s">>),
      DashDash \o T_tsc \o T_nope \o Eq(<<"1">>),
      N_port \o Eq(<<"9">>),
      DashDash \o T_tsc \o N_port,
      <<"9">>,
      DashDash \o T_tsc \o N_user \o Eq(<<"1">>),
      DashDash \o T_tsc \o N_port \o Eq(<<"x">>),
      DashDash \o N_port \o Eq(<<"9">>),
      <<"x">>,
      DashDash \o T_tsc \o fullname_of(<<>>, <<N_prompts, N_name>>) \o Eq(<<"x">>) }

CliArgvs == UNION {[1..n -> CliTokens] : n \in 0..MaxArgs}

InitCli ==
    /\ module \in {"typesafe_config", "typesave_config"}
    /\ argv \in CliArgvs
    /\ call \in {[prefix |-> p] : p \in CliPrefixes}
    /\ fs = Idle
    /\ environ = Idle
    /\ defaults = NoneValue
    /\ frozen = {}
    /\ instances = <<>>
    /\ result = Idle
    /\ assigned = Idle
    /\ input = Idle
    /\ output = Idle

\* cls._load_cli(sys.argv[1:], prefix) on the demo schema
RunCli ==
    /\ output = Idle
    /\ output' = load_cli_of(module, Schema, "AppConfig", call.prefix, argv)
    /\ UNCHANGED <<loader_vars, input>>

NextCli == RunCli

SpecCli == InitCli /\ [][NextCli]_vars

\* the value a pure nested mapping holds along a path of keys
RECURSIVE has_path(_, _)
has_path(d, parts) ==
    IF Len(parts) = 0 THEN TRUE
    ELSE /\ isdict(d)
         /\ Head(parts) \in DOMAIN d.v
         /\ has_path(d.v[Head(parts)], Tail(parts))

RECURSIVE value_at(_, _)
value_at(d, parts) ==
    IF Len(parts) = 0 THEN d ELSE value_at(d.v[Head(parts)], Tail(parts))

\* the full paths of the Scalar descriptors of the demo schema
ScalarDescriptors ==
    LET ms == get_metadata(Schema, "AppConfig")
    IN {ms[i] : i \in {j \in DOMAIN ms : ms[j].type \in BaseTypes}}

ScalarPaths == {d.fullname : d \in ScalarDescriptors}

\* arg is "--{prefix}{full_path}=value" for a Scalar full_path, compared
\* without regard to letter case
is_prefixed_flag(arg, prefix) ==
    /\ match_equal(arg).matched
    /\ \E F \in ScalarPaths :
          lower(match_equal(arg).key) = lower(DashDash \o prefix \o F)

cli_ran(mod) == output # Idle /\ module = mod

\* C9 (as stated): in _load_cli of typesafe_config an argument contributes to
\* the CLI fragment only if it is "--{prefix}{full_path}=value" with the
\* configured prefix and a Scalar full path (case-insensitive); every other
\* argument is in the unknown list and leaves the fragment unchanged.
C9_OnlyConfiguredPrefix ==
    cli_ran("typesafe_config") =>
        /\ \A i \in DOMAIN argv :
              ~is_prefixed_flag(argv[i], call.prefix) =>
                  /\ \E j \in DOMAIN output.unknown_args : output.unknown_args[j] = argv[i]
                  /\ \A j \in DOMAIN output.loaded_args :
                        output.loaded_args[j] # match_equal(argv[i]).key
        /\ output.cli_config =
              _load_cli(Schema, "AppConfig", call.prefix,
                        SelectSeq(argv, LAMBDA a : is_prefixed_flag(a, call.prefix))).cli_config

\* C10 (as stated): in _load_cli of typesave_config every "--key=value" whose
\* key equals "--{prefix}{F}" up to letter case, for a Scalar descriptor F
\* and a value of F's type, is recognized and written at F's declared path.
C10_CaseInsensitive ==
    cli_ran("typesave_config") =>
        \A i \in DOMAIN argv : \A d \in ScalarDescriptors :
            LET m == match_equal(argv[i])
            IN (/\ m.matched
                /\ lower(m.key) = lower(DashDash \o call.prefix \o d.fullname)
                /\ coerce(d.type, m.value).ok) =>
                   /\ \E j \in DOMAIN output.loaded_args : output.loaded_args[j] = m.key
                   /\ has_path(output.cli_config, split(d.fullname, field_seperator))

\* the two-shape parser as the claim describes it: "--flag=value", and
\* "--flag" followed by a token that does not start with "--", which is the
\* value and is consumed whether or not it converts
RECURSIVE two_shapes(_, _, _, _, _)
two_shapes(ms, prefix_lower, args, i, st) ==
    IF i > Len(args) THEN st
    ELSE LET arg == args[i]
             m == match_equal(arg)
             byeq == registered_flag(ms, prefix_lower, m.key)
             bare == registered_flag(ms, prefix_lower, arg)
             has_value == i + 1 <= Len(args) /\ ~startswith(args[i + 1], DashDash)
         IN IF m.matched
            THEN two_shapes(ms, prefix_lower, args, i + 1,
                    IF byeq.found
                    THEN typesave_store(st, prefix_lower, m.key, byeq.metadata_obj, m.value)
                    ELSE [st EXCEPT !.unknown_args = Append(@, arg)])
            ELSE IF startswith(arg, DashDash) /\ bare.found /\ has_value
            THEN two_shapes(ms, prefix_lower, args, i + 2,
                    typesave_store(st, prefix_lower, arg, bare.metadata_obj, args[i + 1]))
            ELSE IF startswith(arg, DashDash) /\ bare.found
            THEN two_shapes(ms, prefix_lower, args, i + 1,
                    [st EXCEPT !.skipped = Append(@, arg)])
            ELSE two_shapes(ms, prefix_lower, args, i + 1,
                    [st EXCEPT !.unknown_args = Append(@, arg)])

\* C18 (as stated): in _load_cli of typesave_config, for every argv, a
\* recognized flag without "=" followed by a token that does not start with
\* "--" takes that token as its value and the token is consumed (not parsed
\* again, not in the unknown list); a recognized flag without "=" that is
\* last or followed by a "--" token writes nothing, is skipped, and the
\* following token is parsed as its own argument.
C18_TwoShapes ==
    cli_ran("typesave_config") =>
        output = two_shapes(get_metadata(Schema, "AppConfig"), lower(call.prefix),
                            argv, 1, NoCli)

----------------------------------------------------------------------------
(* SpecOverride: one override text given to the command-line loader and to *)
(* the environment loader of a module, on a schema with a field of each    *)
(* scalar kind                                                             *)

N_weight == <<"w", "e", "i", "g", "h", "t">>
N_debug_mode == <<"d", "e", "b", "u", "g", "_", "m", "o", "d", "e">>

\* the fields of the demo schema of kind int, float and bool, its nested user
\* and its list of prompts
KindsSchema ==
    [AppConfig |->
        {Field(N_port, TScalar("int"), TRUE, NoneValue),
         Field(N_weight, TScalar("float"), TRUE, NoneValue),
         Field(N_debug_mode, TScalar("bool"), TRUE, NoneValue),
         Field(N_user, TModel("AppConfigUser"), TRUE, NoneValue),
         Field(N_prompts, TList(TModel("AppConfigPrompt")), TRUE, NoneValue)},
     AppConfigUser |-> Schema.AppConfigUser,
     AppConfigPrompt |-> Schema.AppConfigPrompt]

KindsDescriptors ==
    LET ms == get_metadata(KindsSchema, "AppConfig")
    IN {ms[i] : i \in {j \in DOMAIN ms : ms[j].type \in BaseTypes}}

\* the texts given as override values
OverrideTexts ==
    { <<"9">>, <<"-", "5">>, <<"1", "_", "0">>, <<"x">>, <<"1", ".", "5">>,
      <<"1", "e", "2">>, <<"i", "n", "f">>, <<"1">>, T_yes, upper(T_yes),
      T_true, <<"n", "o">>, <<"c", NewLine>> }

\* "--{prefix}{full_path}" as the caller types it
flag_of(prefix, d) == DashDash \o lower(prefix) \o d.fullname

\* the arguments that give the text t to the descriptor d, as "--flag=t"
\* (shape 1) or as "--flag" "t" (shape 2)
flag_args(prefix, d, t, shape) ==
    IF shape = 1 THEN <<flag_of(prefix, d) \o Eq(t)>> ELSE <<flag_of(prefix, d), t>>

\* another argument of the same command line
OtherArgs == <<DashDash \o T_tsc \o fullname_of(<<>>, <<N_user, N_PassWord>>) \o Eq(<<"s">>)>>

InitOverride ==
    /\ module \in {"typesafe_config", "typesave_config"}
    /\ call = [prefix |-> upper(T_tsc)]
    /\ input \in [d : KindsDescriptors, t : OverrideTexts, shape : {1, 2},
                  others : {<<>>, OtherArgs}]
    /\ argv = input.others \o flag_args(call.prefix, input.d, input.t, input.shape)
    /\ environ = (upper(call.prefix) \o upper(input.d.fullname)) :> input.t
    /\ output = [cli |-> Idle, env |-> Idle]
    /\ fs = Idle
    /\ defaults = NoneValue
    /\ frozen = {}
    /\ instances = <<>>
    /\ result = Idle
    /\ assigned = Idle

\* cls._load_cli(prefix, sep) with sys.argv[1:] = argv
RunCliOverride ==
    /\ output.cli = Idle
    /\ output' = [output EXCEPT
                    !.cli = load_cli_of(module, KindsSchema, "AppConfig", call.prefix, argv)]
    /\ UNCHANGED <<loader_vars, input>>

\* cls._load_env(prefix, sep) with os.environ = environ
RunEnvOverride ==
    /\ output.env = Idle
    /\ output' = [output EXCEPT
                    !.env = load_env_of(module, KindsSchema, "AppConfig", call.prefix, environ)]
    /\ UNCHANGED <<loader_vars, input>>

NextOverride == RunCliOverride \/ RunEnvOverride

SpecOverride == InitOverride /\ [][NextOverride]_vars

override_path == split(input.d.fullname, field_seperator)

\* what the claim requires of the text t for a descriptor of the given kind
coerced_by_kind(type, t) ==
    CASE type = "int" -> parse_int(t)
      [] type = "float" -> parse_float(t)
      [] type = "bool" ->
            [ok |-> TRUE, value |-> VBool(lower(t) \in {T_true, <<"1">>, T_yes})]
      [] OTHER -> [ok |-> TRUE, value |-> VStr(t)]

\* the fragment of the other arguments alone
others_alone ==
    typesave_load_cli(KindsSchema, "AppConfig", call.prefix, input.others).cli_config

\* C11 (as stated): in _load_cli of typesave_config the value written for a
\* recognized flag of a Scalar descriptor is the coercion of its text by the
\* descriptor kind (int: the parsed integer, float: the parsed number, bool:
\* true exactly for the lower-cased texts true, 1, yes, str: the text
\* verbatim); a text that cannot be parsed for an int or float descriptor
\* writes nothing and leaves the entries of the other flags as they are
\* without it.
C11_CoercedByKind ==
    (module = "typesave_config" /\ output.cli # Idle) =>
        LET c == coerced_by_kind(input.d.type, input.t)
            cli_config == output.cli.cli_config
        IN IF c.ok
           THEN /\ has_path(cli_config, override_path)
                /\ value_at(cli_config, override_path) = c.value
           ELSE cli_config = others_alone

\* the text of the flag as the parser takes it: what follows the first "="
\* without one final line break (shape 1), the whole next token (shape 2)
override_text ==
    IF input.shape = 1 /\ input.t[Len(input.t)] = NewLine
    THEN SubSeq(input.t, 1, Len(input.t) - 1)
    ELSE input.t

\* C11 (amended): as C11, the text of "--flag=value" being what follows the
\* first "=" without one final line break, and the text of "--flag value"
\* the whole following token.
C11_CoercedCapturedText ==
    (module = "typesave_config" /\ output.cli # Idle) =>
        LET c == coerced_by_kind(input.d.type, override_text)
            cli_config == output.cli.cli_config
        IN IF c.ok
           THEN /\ has_path(cli_config, override_path)
                /\ value_at(cli_config, override_path) = c.value
                /\ \E i \in DOMAIN output.cli.loaded_args :
                      output.cli.loaded_args[i] = flag_of(call.prefix, input.d)
           ELSE /\ cli_config = others_alone
                /\ \E i \in DOMAIN output.cli.skipped :
                      output.cli.skipped[i] = flag_of(call.prefix, input.d)

\* "--tsc_user__UserName=c" with a line break after c was loaded as "c",
\* next to the other flag
C11_Witness ==
    /\ module = "typesave_config"
    /\ output.cli # Idle
    /\ input.shape = 1
    /\ input.t = <<"c", NewLine>>
    /\ input.others = OtherArgs
    /\ output.cli.cli_config =
          VDict(N_user :> VDict(N_UserName :> VStr(<<"c">>) @@ N_PassWord :> VStr(<<"s">>)))

\* C12 (as stated): for every Scalar descriptor and every text t, the value
\* the environment loader writes when UPPER(prefix)+UPPER(full_path) holds t
\* equals the value the CLI loader of the same module writes for
\* "--{prefix}{full_path}=t", and the environment loader writes nothing when
\* the CLI loader drops t as a coercion failure.
C12_EnvCoercesAsCli ==
    (input.shape = 1 /\ input.others = <<>> /\ output.cli # Idle /\ output.env # Idle) =>
        IF has_path(output.cli.cli_config, override_path)
        THEN /\ has_path(output.env, override_path)
             /\ value_at(output.env, override_path) =
                   value_at(output.cli.cli_config, override_path)
        ELSE output.env = EmptyDict

\* a file fragment that supplies a sequence for the list-of-object field
PromptsFromFile == VDict(N_prompts :> VList(<<VDict(N_name :> VStr(<<"f">>))>>))

\* C20 (as stated): no override the CLI or the environment loader accepts
\* addresses a path through a list-of-object field: neither fragment holds
\* anything at the field prompts, and merging the fragment over a file
\* fragment leaves the sequence the file supplies for prompts in place.
C20_NoOverrideThroughList ==
    /\ output.cli # Idle =>
          /\ ~has_path(output.cli.cli_config, <<N_prompts>>)
          /\ merged_value(PromptsFromFile, output.cli.cli_config).v[N_prompts]
                = PromptsFromFile.v[N_prompts]
    /\ output.env # Idle =>
          /\ ~has_path(output.env, <<N_prompts>>)
          /\ merged_value(PromptsFromFile, output.env).v[N_prompts]
                = PromptsFromFile.v[N_prompts]

----------------------------------------------------------------------------
(* SpecWalk: the schema walker and the freeze applied to a family of       *)
(* schemas over two classes A and B, A the root                            *)

\* the fields a class of the family may declare: a scalar, a list of its own
\* class, a list of the other class, a nested object of the other class, and
\* (in A) a scalar whose name holds the separator
FieldsOfA ==
    { Field(<<"x">>, TScalar("int"), TRUE, NoneValue),
      Field(<<"s">>, TList(TModel("A")), TRUE, NoneValue),
      Field(<<"b">>, TList(TModel("B")), TRUE, NoneValue),
      Field(<<"n">>, TModel("B"), TRUE, NoneValue),
      Field(<<"n", "_", "_", "y">>, TScalar("int"), TRUE, NoneValue) }

FieldsOfB ==
    { Field(<<"y">>, TScalar("str"), TRUE, NoneValue),
      Field(<<"a">>, TList(TModel("A")), TRUE, NoneValue),
      Field(<<"m">>, TModel("A"), TRUE, NoneValue),
      Field(<<"t">>, TList(TModel("B")), TRUE, NoneValue) }

WalkSchemas == {[A |-> fa, B |-> fb] : fa \in SUBSET FieldsOfA, fb \in SUBSET FieldsOfB}

InitWalk ==
    /\ LoaderIdle
    /\ input \in [S : WalkSchemas]
    /\ output = [catalogue |-> Idle, frozen |-> Idle]

\* A.get_metadata()
Walk ==
    /\ output.catalogue = Idle
    /\ output' = [output EXCEPT
                    !.catalogue = [t |-> "catalogue", v |-> get_metadata(input.S, "A")]]
    /\ UNCHANGED <<loader_vars, input>>

\* A._set_frozen(A), no class frozen before
Freeze ==
    /\ output.frozen = Idle
    /\ output' = [output EXCEPT !.frozen = _set_frozen(input.S, "A", 0, {})]
    /\ UNCHANGED <<loader_vars, input>>

NextWalk == Walk \/ Freeze

SpecWalk == InitWalk /\ [][NextWalk]_vars

walked == output.catalogue # Idle

\* the walk came back with a catalogue (no RecursionError left it)
returned ==
    walked /\ \A i \in DOMAIN output.catalogue.v : output.catalogue.v[i] # RecursionError

\* the classes a class refers to by a nested-object field or as the element
\* type of a list-of-object field
refers_to(S, T) ==
    {f.annotation.name : f \in {g \in S[T] : g.annotation.kind = "model"}}
    \cup {f.annotation.arg.name :
            f \in {g \in S[T] : g.annotation.kind = "list" /\ g.annotation.arg.kind = "model"}}

RECURSIVE reachable_types(_, _)
reachable_types(S, seen) ==
    LET more == seen \cup UNION {refers_to(S, T) : T \in seen}
    IN IF more = seen THEN seen ELSE reachable_types(S, more)

\* C15 (as stated): _get_attr_metadata terminates and returns a finite
\* catalogue for every finite schema, self-referential ones included: a class
\* with a list of its own class, and classes whose references form a longer
\* cycle.
C15_WalkTerminates ==
    walked => returned

----------------------------------------------------------------------------
(* Claims on the schema walker and the freeze *)

full_paths == [i \in DOMAIN output.catalogue.v |-> output.catalogue.v[i].fullname]

has_full_path(P) == \E i \in DOMAIN full_paths : full_paths[i] = P

\* no field name of the schema holds the separator or begins with "_"
plain_names(S) ==
    \A T \in DOMAIN S : \A f \in S[T] :
        /\ occurrences(f.name, field_seperator) = {}
        /\ f.name[1] # "_"

\* C16 (as stated): for every schema the catalogue get_metadata returns has
\* no two descriptors with the same full path, descriptors reached through
\* nested-object fields and through list-of-object element types included.
C16_UniquePaths_AsStated ==
    returned => \A i, j \in DOMAIN full_paths : full_paths[i] = full_paths[j] => i = j

\* C16 (amended): the same for every schema in which no field name holds the
\* separator "__" or begins with "_".
C16_UniquePaths ==
    (returned /\ plain_names(input.S)) =>
        \A i, j \in DOMAIN full_paths : full_paths[i] = full_paths[j] => i = j

\* a catalogue with the field y of B reached through the nested object n and
\* through the list of objects b, and with A's list of its own class
C16_Witness ==
    /\ returned
    /\ plain_names(input.S)
    /\ has_full_path(<<"n", "_", "_", "y">>)
    /\ has_full_path(<<"b", "_", "_", "y">>)
    /\ has_full_path(<<"s">>)
    /\ has_full_path(<<"b", "_", "_", "t">>)

froze == output.frozen # Idle /\ output.frozen.raised = NotRaised

\* C17: after a freeze that came back, every type reachable from the root
\* schema through nested-object fields and through the element types of
\* list-of-object fields, at any depth, is marked frozen, and so is the root.
C17_AllReachableFrozen ==
    froze => reachable_types(input.S, {"A"}) \subseteq output.frozen.frozen

\* A with a list of itself, a list of B and a nested B, B with a list of
\* itself: both classes frozen
C17_Witness ==
    /\ froze
    /\ {f.name : f \in input.S["A"]} = {<<"x">>, <<"s">>, <<"b">>, <<"n">>}
    /\ {f.name : f \in input.S["B"]} = {<<"y">>, <<"t">>}
    /\ output.frozen.frozen = {"A", "B"}

----------------------------------------------------------------------------
(* Spec: calls of load, and assignments on the instances they return *)

MaxLoads == 2
MaxAssigns == 1

UserDict(u, p) == VDict((N_UserName :> VStr(u)) @@ (N_PassWord :> VStr(p)))

\* file contents
T1 == VDict((N_port :> VInt(8000)) @@ (N_user :> UserDict(<<"t">>, <<"t">>)))
T2 == VDict(N_port :> VInt(8001))
J1 == VDict(N_user :> VInt(5))
J2 == VDict(N_port :> VInt(8002))
J3 == VDict(N_port :> VDict(<<"b">> :> VInt(2)))

\* the data dict of the caller
D0 == EmptyDict
D1 == VDict((N_port :> VInt(1)) @@ (N_user :> UserDict(<<"d">>, <<"d">>)))
D2 == VDict(N_port :> VDict(<<"a">> :> VInt(1)))

FileSystems ==
    {("conf.toml" :> c) @@ ("a.toml" :> a) @@ ("c.json" :> j) :
        c \in {Missing, Malformed, Doc(T1)},
        a \in {Doc(T2)},
        j \in {Missing, Doc(J1), Doc(J2), Doc(J3)}}

\* the command line and the environment of the process (a call with
\* load_cli or load_env off reads none of it)
Argvs ==
    { <<DashDash \o T_tsc \o N_port \o Eq(<<"9", "0", "0", "0">>),
        DashDash \o T_tsc \o fullname_of(<<>>, <<N_user, N_UserName>>) \o Eq(<<"c">>)>> }

EnvName(P) == upper(T_tsc) \o upper(fullname_of(<<>>, P))

Environs ==
    { (EnvName(<<N_port>>) :> <<"9", "0", "9", "0">>)
        @@ (EnvName(<<N_user, N_PassWord>>) :> <<"e">>) }

Calls ==
    {[toml_files |-> tf, json_files |-> Given(<<"c.json">>),
      load_env |-> le, load_cli |-> lc, prefix |-> upper(T_tsc)] :
        tf \in {Omitted, Given(<<"conf.toml", "a.toml">>)},
        le \in BOOLEAN, lc \in BOOLEAN}

Init ==
    /\ module \in {"typesafe_config", "typesave_config"}
    /\ fs \in FileSystems
    /\ argv \in Argvs
    /\ environ \in Environs
    /\ call \in Calls
    /\ defaults \in {NoneValue, D0, D1, D2}
    /\ frozen = {}
    /\ instances = <<>>
    /\ result = Idle
    /\ assigned = Idle
    /\ input = Idle
    /\ output = Idle

loads_done == IF result = Idle THEN 0 ELSE result.n

assigns_done == IF assigned = Idle THEN 0 ELSE assigned.n

handler_kept == assigned # Idle /\ assigned.handler_kept

\* AppConfig.load(..., data=defaults, readonly=readonly); n counts the calls
Load(readonly) ==
    /\ loads_done < MaxLoads
    /\ result' = [n |-> loads_done + 1]
                     @@ load(module, Schema, "AppConfig", fs, argv, environ, call,
                             defaults, readonly, frozen)
    /\ defaults' = result'.data_after
    /\ frozen' = result'.frozen
    /\ instances' = IF result'.outcome = "instance"
                    THEN Append(instances, [readonly |-> readonly])
                    ELSE instances
    /\ UNCHANGED <<module, fs, argv, environ, call, assigned, input, output>>

\* instances[i].port = value
Assign(i) ==
    /\ assigns_done < MaxAssigns
    /\ \E o \in setattr_outcomes("AppConfig", frozen, handler_kept) :
          assigned' = [t |-> "assigned", n |-> assigns_done + 1, inst |-> i,
                       outcome |-> o, handler_kept |-> handler_kept \/ o = "ok"]
    /\ UNCHANGED <<module, fs, argv, environ, call, defaults, frozen, instances,
                   result, input, output>>

Next ==
    \/ \E readonly \in BOOLEAN : Load(readonly)
    \/ \E i \in DOMAIN instances : Assign(i)

Spec == Init /\ [][Next]_vars

----------------------------------------------------------------------------
(* Claims on load *)

loaded == result # Idle

\* load got as far as handing the merged mapping to the validator
validated == loaded /\ result.validated

\* the fragments of the last load, lowest precedence first
Precedence == <<"data", "toml", "json", "cli", "env">>

fragment(i) == result.fragments[Precedence[i]]

ScalarFieldPaths == {split(F, field_seperator) : F \in ScalarPaths}

\* the fragments that supply a value for the field at path P
suppliers(P) == {i \in DOMAIN Precedence : has_path(fragment(i), P)}

highest(P) == CHOOSE i \in suppliers(P) : \A k \in suppliers(P) : k <= i

\* the merged mapping holds, for the field at P, the value of the
\* highest-precedence fragment that supplies it
highest_wins(P) ==
    /\ has_path(result.merged, P)
    /\ value_at(result.merged, P) = value_at(fragment(highest(P)), P)

\* no fragment above the supplying one holds a non-mapping at a field
\* enclosing P
enclosing_are_mappings(P) ==
    \A i \in DOMAIN Precedence : \A n \in 1..(Len(P) - 1) :
        (i > highest(P) /\ has_path(fragment(i), SubSeq(P, 1, n)))
            => isdict(value_at(fragment(i), SubSeq(P, 1, n)))

\* C1 (as stated): for every field and every combination of sources that
\* supply a value for it, the merged mapping handed to the validator holds
\* the value of the highest-precedence source that supplies it, in the order
\* defaults < file fragments < CLI fragment < environment fragment.
C1_Precedence_AsStated ==
    validated =>
        \A P \in ScalarFieldPaths : suppliers(P) # {} => highest_wins(P)

\* C1 (amended): the same, for the fields whose highest-precedence supplier
\* holds a non-mapping value for them and above which no fragment holds a
\* non-mapping at an enclosing nested-object field.
C1_Precedence ==
    validated =>
        \A P \in ScalarFieldPaths :
            (/\ suppliers(P) # {}
             /\ ~isdict(value_at(fragment(highest(P)), P))
             /\ enclosing_are_mappings(P)) => highest_wins(P)

\* a load in which defaults, a file, the command line and the environment
\* all supply `port` and the environment's text is what the validator gets,
\* and the command line's UserName wins over the file's and the defaults'
C1_Witness ==
    /\ validated
    /\ suppliers(<<N_port>>) = {1, 2, 4, 5}
    /\ enclosing_are_mappings(<<N_port>>)
    /\ value_at(result.merged, <<N_port>>) = VStr(environ[EnvName(<<N_port>>)])
    /\ suppliers(<<N_user, N_UserName>>) = {1, 2, 4}
    /\ enclosing_are_mappings(<<N_user, N_UserName>>)
    /\ value_at(result.merged, <<N_user, N_UserName>>) = VStr(<<"c">>)

\* the TOML files load reads
toml_files_read ==
    IF call.toml_files.given THEN call.toml_files.v ELSE default_toml_files(module)

\* deepMerge of the files' mappings in the order given
RECURSIVE files_merged(_)
files_merged(files) ==
    IF Len(files) = 0 THEN EmptyDict
    ELSE merged_value(files_merged(SubSeq(files, 1, Len(files) - 1)),
                      fs[files[Len(files)]].v)

\* C2 (as stated): for a list of existing, well-formed files the file
\* fragment is the deep merge of all the files' mappings in the order given.
C2_FilesDeepMerged ==
    (/\ loaded
     /\ result.fragments.toml # NoneValue
     /\ \A i \in DOMAIN toml_files_read : fs[toml_files_read[i]].t = "doc")
        => result.fragments.toml = files_merged(toml_files_read)

\* C3 (as stated): load of typesafe_config returns an instance or None for
\* every combination of arguments, files, argv and environment; no exception
\* leaves it.
C3_Total ==
    (loaded /\ module = "typesafe_config") => result.outcome \in {"instance", "None"}

\* C4 (as stated): an assignment on an instance of a load with freeze
\* requested fails with the immutability error and an assignment on an
\* instance of a load without freeze requested succeeds, whatever other
\* loads there were.
C4_FreezePerInstance ==
    assigned # Idle =>
        IF instances[assigned.inst].readonly
        THEN assigned.outcome = "frozen_instance"
        ELSE assigned.outcome = "ok"

\* C5 (as stated): when validation fails load returns no instance and
\* surfaces one entry per rejected field, each with the full flattened path
\* of the field from the schema root.
C5_FullPath ==
    (validated /\ Len(result.errors) > 0) =>
        /\ result.outcome = "None"
        /\ Len(result.err_str) = Len(result.errors)
        /\ \A i \in DOMAIN result.errors :
              result.err_str[i].field = join(result.errors[i].loc, field_seperator)

\* C8 (as stated): merging leaves every source fragment, the caller's
\* defaults included, as it was, nested mappings included.
C8_FragmentsUnchanged ==
    loaded => result.after = result.fragments

\* other command lines and environments the same call could have run with
OtherArgvs ==
    { <<>>, <<DashDash \o T_tsc \o N_port \o Eq(<<"1">>)>>,
      <<DashDash \o T_tsc \o fullname_of(<<>>, <<N_user, N_PassWord>>) \o Eq(<<"q">>)>> }

OtherEnvirons ==
    { <<>>, EnvName(<<N_port>>) :> <<"x">>,
      EnvName(<<N_user, N_UserName>>) :> <<"q">> }

\* what the load call of this step would have done with args and env instead
load_with(args, env) ==
    [n |-> result'.n] @@ load(module, Schema, "AppConfig", fs, args, env, call,
                              defaults, result'.readonly, frozen)

\* C13: with load_cli false the command line contributes an empty fragment:
\* a load call that differs only in argv has the same outcome; with load_env
\* false a load call that differs only in the environment has the same
\* outcome.
C13_DisabledOverlayIgnored ==
    [][ (result' # result) =>
          /\ ~call.load_cli => \A args \in OtherArgvs : load_with(args, environ) = result'
          /\ ~call.load_env => \A env \in OtherEnvirons : load_with(argv, env) = result' ]_vars

\* a load with both overlays off returned an instance while the command line
\* and the environment held overrides
C13_Witness ==
    /\ loaded
    /\ ~call.load_cli /\ ~call.load_env
    /\ Len(argv) > 0 /\ DOMAIN environ # {}
    /\ result.fragments.cli = EmptyDict /\ result.fragments.env = EmptyDict
    /\ result.outcome = "instance"

positions(steps, names) == {i \in DOMAIN steps : steps[i] \in names}

Loaders == {"toml", "json", "cli", "env"}

\* C19 (as stated): one load call is one traversal Empty -> SourcesLoaded ->
\* Merged -> Validated | Failed: every source loader has finished before the
\* first merge step, validation runs exactly once, on the fully merged
\* mapping, the freeze happens only after validation succeeded and only when
\* it was requested, and a load that fails or does not freeze leaves the
\* frozen flag of every type as it was.
C19_OneTraversal ==
    [][ (result' # result) =>
          LET steps == result'.steps
              merges == positions(steps, {"merge"})
              validations == positions(steps, {"validate"})
              freezes == positions(steps, {"freeze"})
          IN /\ result'.outcome \in {"instance", "None"}
             /\ {steps[i] : i \in positions(steps, Loaders)} = Loaders
             /\ \A i \in positions(steps, Loaders) : \A j \in merges : i < j
             /\ Cardinality(merges) = Len(SourceSteps)
             /\ Cardinality(validations) = 1
             /\ \A i \in merges : \A j \in validations : i < j
             /\ \A k \in freezes :
                   /\ result'.readonly /\ result'.outcome = "instance"
                   /\ \A j \in validations : j < k
             /\ (result'.outcome = "None" \/ ~result'.readonly) => frozen' = frozen ]_vars

====
